---- MODULE Spec2Model ----
(***************************************************************************)
(* Model of the Aadhaar structured-extraction pipeline                     *)
(* (src/aadhar_parser.py): credential rotation in call_gemini_api, the     *)
(* response sanitizer, JSON parsing, validate_data and the batch loop of   *)
(* process_all_files.                                                      *)
(*                                                                         *)
(* Texts are sequences of characters.  The character "~" stands for a      *)
(* backtick, "j" for the four letters of the language tag json (which      *)
(* contain no backtick and do not overlap themselves), " " is white space, *)
(* "x" is any other prose character, "5" is a digit, and an upper-case     *)
(* token stands for the text of one complete JSON document (see JsonDocs). *)
(***************************************************************************)
EXTENDS Integers, Sequences, FiniteSets, TLC

VARIABLES api_keys, current_key_index, configured, txt_files, stats,
          outputs, pc, cur, attempt, calls, ai_response, arg, ret,
          all_files, rstats, txt_written, ok_files, rpos, rpc

\* the state of process_resumes (src/textparser.py)
rvars == <<all_files, rstats, txt_written, ok_files, rpos, rpc>>

\* the state of the structured-extraction run (src/aadhar_parser.py)
avars == <<api_keys, current_key_index, configured, txt_files, stats,
           outputs, pc, cur, attempt, calls, ai_response, arg, ret>>

vars == <<api_keys, current_key_index, configured, txt_files, stats,
          outputs, pc, cur, attempt, calls, ai_response, arg, ret,
          all_files, rstats, txt_written, ok_files, rpos, rpc>>

\* ------------------------------------------------------------------ bounds
MaxKeys == 3
MaxFiles == 2
MaxTextLen == 9
MaxDocs == 3
MaxPages == 4

\* --------------------------------------------------------- text primitives
RECURSIVE SeqsUpTo(_, _)
SeqsUpTo(S, n) ==
    IF n = 0 THEN {<<>>}
    ELSE LET shorter == SeqsUpTo(S, n - 1)
         IN  shorter \cup {Append(s, c) : s \in {t \in shorter : Len(t) = n - 1}, c \in S}

\* s[i .. i+Len(sep)-1] = sep
MatchAt(s, sep, i) ==
    /\ i + Len(sep) - 1 <= Len(s)
    /\ \A k \in 1..Len(sep) : s[i + k - 1] = sep[k]

\* str.find: the least position >= from where sep occurs in s, 0 when none
RECURSIVE Find(_, _, _)
Find(s, sep, from) ==
    IF from + Len(sep) - 1 > Len(s) THEN 0
    ELSE IF MatchAt(s, sep, from) THEN from
    ELSE Find(s, sep, from + 1)

\* the Python test (sep in s)
Contains(s, sep) == Find(s, sep, 1) # 0

\* str.split(sep): leftmost, non-overlapping occurrences of sep cut s
RECURSIVE Split(_, _)
Split(s, sep) ==
    LET i == Find(s, sep, 1)
    IN  IF i = 0 THEN <<s>>
        ELSE <<SubSeq(s, 1, i - 1)>> \o Split(SubSeq(s, i + Len(sep), Len(s)), sep)

FENCE == <<"~", "~", "~">>
JSONFENCE == <<"~", "~", "~", "j">>

\* ---------------------------------------------------------------- sanitizer
SanitizeGenericFirst(resp) ==
    IF Contains(resp, FENCE)
    THEN Split(Split(resp, FENCE)[2], FENCE)[1]
    ELSE resp

SanitizeNoClosingCut(resp) ==
    IF Contains(resp, JSONFENCE)
    THEN Split(resp, JSONFENCE)[2]
    ELSE IF Contains(resp, FENCE)
    THEN Split(Split(resp, FENCE)[2], FENCE)[1]
    ELSE resp

\* process_single_file, "Clean up the AI response"
Sanitize(resp) ==
    IF Contains(resp, JSONFENCE)
    THEN Split(Split(resp, JSONFENCE)[2], FENCE)[1]
    ELSE IF Contains(resp, FENCE)
    THEN Split(Split(resp, FENCE)[2], FENCE)[1]
    ELSE resp

\* ------------------------------------------------------------- JSON values
\* A parsed JSON value is [t, m, elems]: t is its Python type; for a dict m
\* maps each key that is present to the kind of its value; for a list elems
\* is the set of field-name strings among its items; for a str elems is the
\* set of field names that occur in it as substrings.
FieldNames == {"aadhar_number", "name", "date_of_birth", "gender", "address",
               "aadhaar_number"}
ValueKinds == {"null", "str", "list", "dict"}
EmptyMap == [k \in {} |-> "null"]

Dict(m) == [t |-> "dict", m |-> m, elems |-> {}]
List(items) == [t |-> "list", m |-> EmptyMap, elems |-> items]
Str(subs) == [t |-> "str", m |-> EmptyMap, elems |-> subs]
Scalar(t) == [t |-> t, m |-> EmptyMap, elems |-> {}]

Dicts == UNION {[D -> ValueKinds] : D \in SUBSET FieldNames}

required_fields == {"aadhar_number", "name", "date_of_birth", "gender"}

\* the Python test (field in data) for a container
In(field, data) ==
    IF data.t = "dict" THEN field \in DOMAIN data.m ELSE field \in data.elems

validate_data_no_address_check(data) ==
    IF data.t \in {"num", "bool", "null"} THEN "TypeError"
    ELSE IF \E field \in required_fields : ~In(field, data) THEN "False"
    ELSE "True"

validate_data_any_required(data) ==
    IF data.t \in {"num", "bool", "null"} THEN "TypeError"
    ELSE IF \A field \in required_fields : ~In(field, data) THEN "False"
    ELSE IF In("address", data)
         THEN IF data.t # "dict" THEN "TypeError"
              ELSE IF data.m["address"] # "dict" THEN "False" ELSE "True"
    ELSE "True"

\* AadharConverter.validate_data: "True", "False", or the exception it raises
validate_data(data) ==
    IF data.t \in {"num", "bool", "null"} THEN "TypeError"
    ELSE IF \E field \in required_fields : ~In(field, data) THEN "False"
    ELSE IF In("address", data)
         THEN IF data.t # "dict" THEN "TypeError"
              ELSE IF data.m["address"] # "dict" THEN "False" ELSE "True"
    ELSE "True"

\* ------------------------------------------------------------ JSON parsing
FullRecord == [f \in required_fields \cup {"address"} |->
                 IF f = "address" THEN "dict" ELSE "str"]

JsonDocs ==
    [tok \in {"REC", "RECNULLS", "NOGENDER", "ADDRLIST", "ADDRNULL",
              "KEYLIST", "KEYSTR", "NULL"} |->
        CASE tok = "REC" -> Dict(FullRecord)
          [] tok = "RECNULLS" -> Dict([f \in required_fields |-> "null"])
          [] tok = "NOGENDER" -> Dict([f \in required_fields \ {"gender"} |-> "str"])
          [] tok = "ADDRLIST" -> Dict([FullRecord EXCEPT !["address"] = "list"])
          [] tok = "ADDRNULL" -> Dict([FullRecord EXCEPT !["address"] = "null"])
          [] tok = "KEYLIST" -> List(required_fields)
          [] tok = "KEYSTR" -> Str(required_fields)
          [] tok = "NULL" -> Scalar("null")]

IsSpace(c) == c = " "

RECURSIVE LStrip(_)
LStrip(s) == IF s # <<>> /\ IsSpace(Head(s)) THEN LStrip(Tail(s)) ELSE s

RECURSIVE RStrip(_)
RStrip(s) ==
    IF s # <<>> /\ IsSpace(s[Len(s)]) THEN RStrip(SubSeq(s, 1, Len(s) - 1)) ELSE s

NoValue == Scalar("none")

\* json.loads: white space around the single document is skipped; anything
\* else (empty text, prose, two documents, a stray fence) is a JSONDecodeError
json_loads(text) ==
    LET s == RStrip(LStrip(text))
    IN  IF Len(s) = 1 /\ s[1] \in DOMAIN JsonDocs
            THEN [ok |-> TRUE, value |-> JsonDocs[s[1]]]
        ELSE IF s # <<>> /\ \A i \in 1..Len(s) : s[i] = "5"
            THEN [ok |-> TRUE, value |-> Scalar("num")]
        ELSE [ok |-> FALSE, value |-> NoValue]

\* ------------------------------------------------------- credential rotation
KeyToken(i) == <<"key", i>>

\* the text-completion capability fails with a message: a sequence of words
ErrMessages == {<<"Quota", "exceeded">>, <<"rate", "LIMIT">>,
                <<"timeout">>, <<"Internal", "error">>}

\* str.lower on the words of the failure messages
lower(w) ==
    CASE w = "Quota" -> "quota"
      [] w = "LIMIT" -> "limit"
      [] w = "Internal" -> "internal"
      [] OTHER -> w

is_quota_error_quota_only(msg) ==
    \E i \in 1..Len(msg) : lower(msg[i]) = "quota"

is_quota_error_any(msg) == Len(msg) >= 0

\* call_gemini_api: "quota" in str(e).lower() or "limit" in str(e).lower()
is_quota_error(msg) ==
    \/ \E i \in 1..Len(msg) : lower(msg[i]) = "quota"
    \/ \E i \in 1..Len(msg) : lower(msg[i]) = "limit"

switch_api_key_no_wrap(index, n) == IF index + 1 < n THEN index + 1 ELSE index

switch_api_key_skip(index, n) == (index + 2) % n

\* AadharConverter.switch_api_key: the next cursor for a pool of n keys
switch_api_key(index, n) == (index + 1) % n

loop_exhausted_one_more(done, keys) == done >= Len(keys) + 1

\* call_gemini_api: for attempt in range(len(self.api_keys)) has run out
\* after `done` attempts
loop_exhausted(done, keys) == done >= Len(keys)

\* ------------------------------------------------------ completion texts
None == <<"None">>
NoError == <<>>

JsonFenced(body) == <<"x">> \o JSONFENCE \o <<" ">> \o body \o <<" ">> \o FENCE \o <<"x">>
GenericFenced(body) == FENCE \o body \o FENCE
Unclosed(body) == JSONFENCE \o body

Bodies == {<<tok>> : tok \in DOMAIN JsonDocs} \cup {<<"5">>, <<"x">>, <<>>}

\* the completion texts the capability can return (response.text)
Completions ==
    Bodies \cup {JsonFenced(<<"REC">>), JsonFenced(<<"x">>),
                 GenericFenced(<<"REC">>), Unclosed(<<"REC">>)}

TruthyNotNone(resp) == resp # None

\* the Python truth value of ai_response (None and "" are false)
Truthy(resp) == resp # None /\ resp # <<>>

\* ------------------------------------------------------ process_single_file
NoFile == Scalar("absent")
StaleFile == Scalar("stale")
PartialFile == Scalar("partial")
WriteResults == {"ok", "open_error", "dump_error"}

Failure(msg, written) ==
    [ok |-> FALSE, error |-> msg, written |-> written, data |-> NoValue]

\* json.loads of the cleaned-up response, for each completion text
CleanedAndParsed == [resp \in Completions |-> json_loads(Sanitize(resp))]

process_response_write_first(resp, name, write) ==
    IF ~Truthy(resp) THEN Failure(<<"AI failed to process", name>>, "none")
    ELSE LET parsed == CleanedAndParsed[resp]
         IN  IF ~parsed.ok THEN Failure(<<"Invalid JSON from", name>>, "none")
             ELSE LET valid == validate_data(parsed.value)
                  IN  IF valid = "TypeError"
                          THEN Failure(<<"Error processing", name, "TypeError">>, "none")
                      ELSE IF valid = "False"
                          THEN [ok |-> FALSE,
                                error |-> <<"Invalid data structure from", name>>,
                                written |-> "full", data |-> parsed.value]
                      ELSE IF write = "open_error"
                          THEN Failure(<<"Error processing", name, "OSError">>, "none")
                      ELSE IF write = "dump_error"
                          THEN Failure(<<"Error processing", name, "OSError">>, "partial")
                      ELSE [ok |-> TRUE, error |-> NoError, written |-> "full",
                            data |-> parsed.value]

\* process_single_file from the test of ai_response to its return: the
\* returned flag, the error appended (NoError when none) and what became of
\* the output artifact; write is what open/json.dump do if they are reached
process_response(resp, name, write) ==
    IF ~Truthy(resp) THEN Failure(<<"AI failed to process", name>>, "none")
    ELSE LET parsed == CleanedAndParsed[resp]
         IN  IF ~parsed.ok THEN Failure(<<"Invalid JSON from", name>>, "none")
             ELSE LET valid == validate_data(parsed.value)
                  IN  IF valid = "TypeError"
                          THEN Failure(<<"Error processing", name, "TypeError">>, "none")
                      ELSE IF valid = "False"
                          THEN Failure(<<"Invalid data structure from", name>>, "none")
                      ELSE IF write = "open_error"
                          THEN Failure(<<"Error processing", name, "OSError">>, "none")
                      ELSE IF write = "dump_error"
                          THEN Failure(<<"Error processing", name, "OSError">>, "partial")
                      ELSE [ok |-> TRUE, error |-> NoError, written |-> "full",
                            data |-> parsed.value]

Account_abort_on_failure(r) ==
    /\ stats' = [stats EXCEPT
                   !.successful = IF r.ok THEN @ + 1 ELSE @,
                   !.failed = IF r.ok THEN @ ELSE @ + 1,
                   !.errors = IF r.error = NoError THEN @ ELSE Append(@, r.error)]
    /\ outputs' = CASE r.written = "full" -> [outputs EXCEPT ![txt_files[cur]] = r.data]
                    [] r.written = "partial" -> [outputs EXCEPT ![txt_files[cur]] = PartialFile]
                    [] OTHER -> outputs
    /\ IF cur < Len(txt_files) /\ r.ok
       THEN cur' = cur + 1 /\ pc' = "read"
       ELSE cur' = cur /\ pc' = "done"

\* process_all_files: count the item's result and move to the next file
\* (r is what process_single_file did)
Account(r) ==
    /\ stats' = [stats EXCEPT
                   !.successful = IF r.ok THEN @ + 1 ELSE @,
                   !.failed = IF r.ok THEN @ ELSE @ + 1,
                   !.errors = IF r.error = NoError THEN @ ELSE Append(@, r.error)]
    /\ outputs' = CASE r.written = "full" -> [outputs EXCEPT ![txt_files[cur]] = r.data]
                    [] r.written = "partial" -> [outputs EXCEPT ![txt_files[cur]] = PartialFile]
                    [] OTHER -> outputs
    /\ IF cur < Len(txt_files)
       THEN cur' = cur + 1 /\ pc' = "read"
       ELSE cur' = cur /\ pc' = "done"

\* ------------------------------------------------------------------ state
TypeOK ==
    /\ pc \in {"start", "aborted", "raised", "idle", "read", "call", "parse", "done", "pure"}
    /\ current_key_index \in Int
    /\ attempt \in Nat
    /\ cur \in Nat

\* process_resumes has not been called
ResumesIdle ==
    /\ all_files = <<>>
    /\ rstats = [total_resumes |-> 0, processed_successfully |-> 0,
                 failed_processing |-> 0, errors |-> <<>>]
    /\ txt_written = <<>>
    /\ ok_files = {}
    /\ rpos = 0
    /\ rpc = "off"

\* no AadharConverter run is in progress
ConverterIdle ==
    /\ api_keys = <<KeyToken(1)>>
    /\ current_key_index = 0
    /\ configured = KeyToken(1)
    /\ txt_files = <<>>
    /\ stats = [total_files |-> 0, successful |-> 0, failed |-> 0, errors |-> <<>>]
    /\ outputs = [f \in {} |-> NoFile]
    /\ cur = 0
    /\ attempt = 0
    /\ calls = <<>>
    /\ ai_response = None

PureIdle ==
    /\ ResumesIdle
    /\ ConverterIdle

\* AadharConverter.__init__ with a non-empty credential list
Init ==
    /\ api_keys \in {[i \in 1..k |-> KeyToken(i)] : k \in 1..MaxKeys}
    /\ current_key_index = 0
    /\ configured = api_keys[1]
    /\ txt_files = <<>>
    /\ stats = [total_files |-> 0, successful |-> 0, failed |-> 0, errors |-> <<>>]
    /\ outputs = [f \in {} |-> NoFile]
    /\ pc = "idle"
    /\ cur = 0
    /\ attempt = 0
    /\ calls = <<>>
    /\ ai_response = None
    /\ arg = <<>>
    /\ ret = <<>>
    /\ ResumesIdle

\* process_all_files up to the loop: glob the input directory (n text files);
\* the output directory is empty or holds the artifacts of an earlier run
process_all_files ==
    /\ pc = "idle"
    /\ \E n \in 0..MaxFiles :
         /\ txt_files' = [i \in 1..n |-> i]
         /\ stats' = [stats EXCEPT !.total_files = n]
         /\ outputs' \in {[f \in 1..n |-> NoFile], [f \in 1..n |-> StaleFile]}
         /\ IF n = 0 THEN pc' = "done" /\ cur' = 0
                     ELSE pc' = "read" /\ cur' = 1
    /\ UNCHANGED <<api_keys, current_key_index, configured, attempt, calls,
                   ai_response, arg, ret, rvars>>

read_file_reset_cursor ==
    /\ pc = "read"
    /\ \E readable \in BOOLEAN :
         IF readable
         THEN /\ pc' = "call"
              /\ attempt' = 0
              /\ calls' = <<>>
              /\ ai_response' = None
              /\ current_key_index' = 0
              /\ configured' = api_keys[1]
              /\ UNCHANGED <<stats, outputs, cur>>
         ELSE /\ Account(Failure(<<"Error processing", txt_files[cur], "OSError">>, "none"))
              /\ UNCHANGED <<attempt, calls, ai_response, current_key_index, configured>>
    /\ UNCHANGED <<api_keys, txt_files, arg, ret, rvars>>

\* process_single_file: open and read the text file; a failure to read is
\* caught by the outer handler and the item is counted as failed
read_file ==
    /\ pc = "read"
    /\ \E readable \in BOOLEAN :
         IF readable
         THEN /\ pc' = "call"
              /\ attempt' = 0
              /\ calls' = <<>>
              /\ ai_response' = None
              /\ UNCHANGED <<stats, outputs, cur>>
         ELSE /\ Account(Failure(<<"Error processing", txt_files[cur], "OSError">>, "none"))
              /\ UNCHANGED <<attempt, calls, ai_response>>
    /\ UNCHANGED <<api_keys, current_key_index, configured, txt_files, arg, ret, rvars>>

\* one iteration of the loop of call_gemini_api: generate_content answers
\* with a text or raises with a message
call_gemini_api ==
    /\ pc = "call"
    /\ ~loop_exhausted(attempt, api_keys)
    /\ \/ \E text \in Completions :
            /\ calls' = Append(calls, [index |-> current_key_index, key |-> configured,
                                       error |-> NoError, text |-> text, pause |-> 0])
            /\ ai_response' = text
            /\ pc' = "parse"
            /\ UNCHANGED <<current_key_index, configured, attempt>>
       \/ \E msg \in ErrMessages :
            /\ calls' = Append(calls, [index |-> current_key_index, key |-> configured,
                                       error |-> msg, text |-> <<>>,
                                       pause |-> IF is_quota_error(msg) THEN 0 ELSE 2])
            /\ IF is_quota_error(msg)
               THEN /\ current_key_index' = switch_api_key(current_key_index, Len(api_keys))
                    /\ configured' = api_keys[current_key_index' + 1]
               ELSE UNCHANGED <<current_key_index, configured>>
            /\ attempt' = attempt + 1
            /\ IF loop_exhausted(attempt', api_keys)
               THEN ai_response' = None /\ pc' = "parse"
               ELSE UNCHANGED <<ai_response, pc>>
    /\ UNCHANGED <<api_keys, txt_files, stats, outputs, cur, arg, ret, rvars>>

\* process_single_file after the call returned, and the bookkeeping of
\* process_all_files for the item
process_single_file ==
    /\ pc = "parse"
    /\ \E write \in WriteResults :
         \E r \in {process_response(ai_response, txt_files[cur], write)} : Account(r)
    /\ UNCHANGED <<api_keys, current_key_index, configured, txt_files, attempt,
                   calls, ai_response, arg, ret, rvars>>

Next ==
    \/ process_all_files
    \/ read_file
    \/ call_gemini_api
    \/ process_single_file

Spec == Init /\ [][Next]_vars

FairSpec == Spec /\ WF_vars(Next)

\* ------------------------------------------------------------ start of a run
NoKey == <<"key", 0>>

init_result_no_configure(keys) == [pc |-> "idle", configured |-> NoKey]

\* AadharConverter.__init__: genai.configure(api_key=self.api_keys[0]) raises
\* IndexError for an empty list, before self.stats exists
init_result(keys) ==
    IF keys = <<>> THEN [pc |-> "raised", configured |-> NoKey]
    ELSE [pc |-> "idle", configured |-> keys[1]]

\* before main or a caller constructs the converter: the credential list read
\* from the environment may be empty
StartInit ==
    /\ api_keys \in {[i \in 1..k |-> KeyToken(i)] : k \in 0..MaxKeys}
    /\ current_key_index = 0
    /\ configured = NoKey
    /\ txt_files = <<>>
    /\ stats = [total_files |-> 0, successful |-> 0, failed |-> 0, errors |-> <<>>]
    /\ outputs = [f \in {} |-> NoFile]
    /\ pc = "start"
    /\ cur = 0
    /\ attempt = 0
    /\ calls = <<>>
    /\ ai_response = None
    /\ arg = <<>>
    /\ ret = <<>>
    /\ ResumesIdle

\* main: return when no key was found, else construct the converter; an
\* exception of the constructor is swallowed by main
main ==
    /\ pc = "start"
    /\ IF api_keys = <<>>
       THEN pc' = "aborted" /\ UNCHANGED configured
       ELSE LET r == init_result(api_keys)
            IN  /\ pc' = IF r.pc = "raised" THEN "aborted" ELSE r.pc
                /\ configured' = r.configured
    /\ UNCHANGED <<api_keys, current_key_index, txt_files, stats, outputs, cur,
                   attempt, calls, ai_response, arg, ret, rvars>>

\* a caller constructs AadharConverter(api_keys) itself
construct ==
    /\ pc = "start"
    /\ LET r == init_result(api_keys)
       IN  /\ pc' = r.pc
           /\ configured' = r.configured
    /\ UNCHANGED <<api_keys, current_key_index, txt_files, stats, outputs, cur,
                   attempt, calls, ai_response, arg, ret, rvars>>

StartNext ==
    \/ main
    \/ construct
    \/ process_all_files
    \/ read_file
    \/ call_gemini_api
    \/ process_single_file

StartSpec == StartInit /\ [][StartNext]_vars

\* ================================================================== claims
K == Len(api_keys)
Failed(i) == calls[i].error # NoError
QuotaMessages == {<<"Quota", "exceeded">>, <<"rate", "LIMIT">>}
QuotaFailure(i) == calls[i].error \in QuotaMessages
OtherFailure(i) == Failed(i) /\ calls[i].error \notin QuotaMessages
Returned == pc = "parse"

\* C1: one call of call_gemini_api invokes the completion capability at most
\* K times, no invocation follows a successful one, the call returns the text
\* of that first successful invocation, and it returns None exactly when all
\* K invocations failed.
C1_AtMostKAttemptsFirstSuccess ==
    /\ Len(calls) <= K
    /\ \A i \in 1..Len(calls) : ~Failed(i) => i = Len(calls)
    /\ Returned =>
         /\ ai_response = None <=> (Len(calls) = K /\ \A i \in 1..K : Failed(i))
         /\ ai_response # None =>
              /\ ~Failed(Len(calls))
              /\ ai_response = calls[Len(calls)].text

C1_Witness ==
    /\ Returned
    /\ K = 3
    /\ Len(calls) = 3
    /\ Failed(1) /\ Failed(2) /\ ~Failed(3)
    /\ ai_response = calls[3].text

\* C2: a failed attempt with a quota/rate-limit message does not pause and
\* moves the cursor to the next credential (cyclically), which the next
\* attempt uses; a failed attempt with any other message pauses 2 time units
\* and leaves the cursor alone, so the next attempt uses the same credential.
CursorAfter(i) ==
    IF i < Len(calls) THEN calls[i + 1].index ELSE current_key_index
KeyAfter(i) ==
    IF i < Len(calls) THEN calls[i + 1].key ELSE configured

C2_QuotaRotatesOtherPauses ==
    \A i \in 1..Len(calls) :
        /\ QuotaFailure(i) =>
             /\ calls[i].pause = 0
             /\ CursorAfter(i) = (calls[i].index + 1) % K
             /\ KeyAfter(i) = api_keys[((calls[i].index + 1) % K) + 1]
        /\ OtherFailure(i) =>
             /\ calls[i].pause = 2
             /\ CursorAfter(i) = calls[i].index
             /\ KeyAfter(i) = calls[i].key

C2_Witness ==
    /\ K = 3
    /\ Len(calls) = 3
    /\ calls[1].error = <<"rate", "LIMIT">>
    /\ calls[2].error = <<"timeout">>
    /\ calls[2].key = KeyToken(2) /\ calls[3].key = KeyToken(2)

\* C3: K consecutive quota failures of one call, from any starting cursor,
\* use each of the K credentials for exactly one attempt and leave the cursor
\* where it started.
C3_RotationIsCyclic ==
    (Len(calls) = K /\ \A i \in 1..K : QuotaFailure(i)) =>
        /\ {calls[i].index : i \in 1..K} = 0..(K - 1)
        /\ {calls[i].key : i \in 1..K} = {api_keys[i] : i \in 1..K}
        /\ \A i, j \in 1..K : i # j => calls[i].key # calls[j].key
        /\ current_key_index = calls[1].index
        /\ configured = calls[1].key

C3_Witness ==
    /\ K >= 2
    /\ Len(calls) = K
    /\ \A i \in 1..K : QuotaFailure(i)
    /\ calls[1].index = 1
    /\ current_key_index = 1

\* C4: the cursor always indexes an entry of the pool, the configured
\* credential is that entry, and a rotation from the last index goes to 0.
C4_CursorInRangeAndWraps ==
    /\ current_key_index \in 0..(K - 1)
    /\ configured = api_keys[current_key_index + 1]
    /\ \A i \in 1..Len(calls) :
         /\ calls[i].index \in 0..(K - 1)
         /\ (QuotaFailure(i) /\ calls[i].index = K - 1) => CursorAfter(i) = 0

C4_Witness ==
    /\ K = 3
    /\ pc = "done"
    /\ stats.successful >= 1
    /\ stats.failed >= 1
    /\ \E i \in 1..Len(calls) : QuotaFailure(i) /\ calls[i].index = 2
    /\ current_key_index = 0

\* ------------------------------------------------- the sanitizer on its own
TextChars == {"~", "j", "x"}

SanInit ==
    /\ PureIdle
    /\ pc = "pure"
    /\ arg \in SeqsUpTo(TextChars, MaxTextLen)
    /\ ret = <<>>

\* the sanitizing step applied to arg, then once more to its own result
sanitize_step ==
    /\ pc = "pure"
    /\ Len(ret) < 2
    /\ ret' = Append(ret, Sanitize(IF ret = <<>> THEN arg ELSE ret[Len(ret)]))
    /\ UNCHANGED <<api_keys, current_key_index, configured, txt_files, stats,
                   outputs, pc, cur, attempt, calls, ai_response, arg, rvars>>

SanNext == sanitize_step

SanSpec == SanInit /\ [][SanNext]_vars

\* ------------------------------------------------- validate_data on its own
ValInit ==
    /\ PureIdle
    /\ pc = "pure"
    /\ arg \in {Dict(m) : m \in Dicts}
    /\ ret = <<>>

validate_step ==
    /\ pc = "pure"
    /\ ret = <<>>
    /\ ret' = <<validate_data(arg)>>
    /\ UNCHANGED <<api_keys, current_key_index, configured, txt_files, stats,
                   outputs, pc, cur, attempt, calls, ai_response, arg, rvars>>

ValNext == validate_step

ValSpec == ValInit /\ [][ValNext]_vars

\* C6 as stated: for a mapping, validate_data returns invalid iff one of
\* aadhaar_number, name, date_of_birth, gender is absent or address is
\* present with a value that is not a mapping.
Has(k) == k \in DOMAIN arg.m
BadAddress == Has("address") /\ arg.m["address"] # "dict"
Validated == ret # <<>>

C6_AsStated ==
    Validated =>
        (ret[1] = "False" <=>
            \/ \E k \in {"aadhaar_number", "name", "date_of_birth", "gender"} : ~Has(k)
            \/ BadAddress)

\* C6 (amended): for a mapping, validate_data returns invalid iff one of
\* aadhar_number, name, date_of_birth, gender is absent as a key or address
\* is present with a value that is not a mapping, and valid otherwise; a key
\* whose value is null is present, and no other field changes the result.
C6_ValidIffRequiredKeysAndAddress ==
    Validated =>
        /\ ret[1] \in {"True", "False"}
        /\ ret[1] = "False" <=>
            \/ \E k \in {"aadhar_number", "name", "date_of_birth", "gender"} : ~Has(k)
            \/ BadAddress

C6_Witness ==
    /\ Validated
    /\ ret[1] = "True"
    /\ \A k \in {"aadhar_number", "name", "date_of_birth", "gender"} :
          Has(k) /\ arg.m[k] = "null"
    /\ Has("address") /\ ~Has("aadhaar_number")

\* C7 as stated: with all four required keys, address = null is accepted, no
\* address key is accepted, address = list is rejected; a record without
\* gender is rejected.
AllRequired == \A k \in required_fields : Has(k)

C7_AsStated ==
    Validated =>
        /\ (AllRequired /\ Has("address") /\ arg.m["address"] = "null") => ret[1] = "True"
        /\ (AllRequired /\ ~Has("address")) => ret[1] = "True"
        /\ (AllRequired /\ Has("address") /\ arg.m["address"] = "list") => ret[1] = "False"
        /\ ~Has("gender") => ret[1] = "False"

\* C7 (amended): with all four required keys, a record whose address is null
\* is rejected (null is not a mapping), a record with no address key is
\* accepted even when the four values are null, a record whose address is a
\* list is rejected; a record without gender is rejected.
C7_ValidatorExamples ==
    Validated =>
        /\ (AllRequired /\ Has("address") /\ arg.m["address"] = "null") => ret[1] = "False"
        /\ (AllRequired /\ ~Has("address")) => ret[1] = "True"
        /\ (AllRequired /\ Has("address") /\ arg.m["address"] = "list") => ret[1] = "False"
        /\ ~Has("gender") => ret[1] = "False"

C7_Witness ==
    /\ Validated
    /\ AllRequired
    /\ Has("address") /\ arg.m["address"] = "null"
    /\ ret[1] = "False"

\* the text after the first occurrence of sep in s (sep occurs in s)
AfterFirst(s, sep) == SubSeq(s, Find(s, sep, 1) + Len(sep), Len(s))

\* the text before the first occurrence of sep in s, all of s when none
UpToFirst(s, sep) ==
    IF Contains(s, sep) THEN SubSeq(s, 1, Find(s, sep, 1) - 1) ELSE s

Sanitized == Len(ret) >= 1

\* C8 as stated: the sanitizer yields the content between the first
\* JSON-marked fence opener and the next fence marker if a JSON-marked fence
\* occurs; else the content between the first and the second fence marker if
\* a fence marker occurs; else the text unchanged.  (Where no further fence
\* marker follows, the content is read as running to the end of the text.)
C8_AsStated ==
    Sanitized =>
        ret[1] = IF Contains(arg, JSONFENCE)
                     THEN UpToFirst(AfterFirst(arg, JSONFENCE), FENCE)
                 ELSE IF Contains(arg, FENCE)
                     THEN UpToFirst(AfterFirst(arg, FENCE), FENCE)
                 ELSE arg

\* C8 (amended): if a JSON-marked fence occurs, the sanitizer yields the text
\* after the first JSON-marked opener, cut at the next JSON-marked opener (if
\* any) and then at the first fence marker left in that piece; else, if a
\* fence marker occurs, the text between the first fence marker and the
\* second (or the end of the text); else the text unchanged.  Nothing before
\* the opening fence reaches the parser.
C8_SanitizerExtractsFencedContent ==
    Sanitized =>
        /\ ret[1] = IF Contains(arg, JSONFENCE)
                        THEN UpToFirst(UpToFirst(AfterFirst(arg, JSONFENCE), JSONFENCE), FENCE)
                    ELSE IF Contains(arg, FENCE)
                        THEN UpToFirst(AfterFirst(arg, FENCE), FENCE)
                    ELSE arg
        /\ Contains(arg, FENCE) =>
             Len(ret[1]) <= Len(arg) - Len(FENCE) - (Find(arg, FENCE, 1) - 1)

C8_Witness ==
    /\ Sanitized
    /\ arg = <<"x", "~", "~", "~", "j", "x", "~", "~", "~">>
    /\ ret[1] = <<"x">>

\* C9: the sanitizer's output contains no fence marker, fence-free text is
\* returned unchanged, and sanitizing the output again changes nothing.
C9_SanitizerIdempotent ==
    /\ Sanitized => ~Contains(ret[1], FENCE)
    /\ (Sanitized /\ ~Contains(arg, FENCE)) => ret[1] = arg
    /\ Len(ret) = 2 => ret[2] = ret[1]

C9_Witness ==
    /\ Len(ret) = 2
    /\ Contains(arg, JSONFENCE)
    /\ Len(ret[1]) >= 2
    /\ ret[1] # arg
    /\ ret[2] = ret[1]

\* ---------------------------------------------------- outcomes of one item
ItemName == txt_files[cur]

FailedWith(e) ==
    /\ stats'.errors = Append(stats.errors, e)
    /\ stats'.failed = stats.failed + 1
    /\ stats'.successful = stats.successful
    /\ outputs' = outputs

Succeeded(d) ==
    /\ stats'.errors = stats.errors
    /\ stats'.successful = stats.successful + 1
    /\ stats'.failed = stats.failed
    /\ outputs' = [outputs EXCEPT ![ItemName] = d]

WriteFailed ==
    /\ stats'.errors = Append(stats.errors, <<"Error processing", ItemName, "OSError">>)
    /\ stats'.failed = stats.failed + 1
    /\ stats'.successful = stats.successful
    /\ outputs' \in {outputs, [outputs EXCEPT ![ItemName] = PartialFile]}

\* C5 as stated: once the client has returned, the item ends in one of four
\* outcomes: null -> "AI failed to process"; every non-null completion is
\* sanitized and parsed, a parse failure -> "Invalid JSON from"; a parsed
\* value that fails validation -> "Invalid data structure from"; a valid
\* record -> persisted and the item successful.  (A write that raises is
\* left aside here, so that the statement is judged on the responses alone.)
C5_AsStated ==
    [][pc = "parse" =>
        LET parsed == json_loads(Sanitize(ai_response))
        IN  IF ai_response = None
                THEN FailedWith(<<"AI failed to process", ItemName>>)
            ELSE IF ~parsed.ok
                THEN FailedWith(<<"Invalid JSON from", ItemName>>)
            ELSE IF validate_data(parsed.value) # "True"
                THEN FailedWith(<<"Invalid data structure from", ItemName>>)
            ELSE Succeeded(parsed.value) \/ WriteFailed]_vars

\* C5 (amended): each item ends in exactly one of five outcomes: an exception
\* while reading the file, validating the parsed value or writing the
\* artifact -> one error "Error processing <name>: <detail>"; the client
\* returned null or an empty completion -> one error "AI failed to process
\* <name>"; otherwise the text is sanitized and parsed, and a parse failure
\* -> "Invalid JSON from <name>"; a parsed value that validation rejects ->
\* "Invalid data structure from <name>"; a valid record whose write
\* completes -> persisted and the item successful.
C5_ItemOutcomes ==
    [][/\ (pc = "read" /\ pc' # "call") =>
            FailedWith(<<"Error processing", ItemName, "OSError">>)
       /\ pc = "parse" =>
            LET parsed == json_loads(Sanitize(ai_response))
                valid == validate_data(parsed.value)
            IN  IF ai_response = None \/ ai_response = <<>>
                    THEN FailedWith(<<"AI failed to process", ItemName>>)
                ELSE IF ~parsed.ok
                    THEN FailedWith(<<"Invalid JSON from", ItemName>>)
                ELSE IF valid = "TypeError"
                    THEN FailedWith(<<"Error processing", ItemName, "TypeError">>)
                ELSE IF valid = "False"
                    THEN FailedWith(<<"Invalid data structure from", ItemName>>)
                ELSE Succeeded(parsed.value) \/ WriteFailed]_vars

C5_Witness ==
    /\ pc = "done"
    /\ Len(txt_files) = 2
    /\ stats.errors = << <<"AI failed to process", 1>> >>
    /\ stats.successful = 1
    /\ ai_response = JsonFenced(<<"REC">>)
    /\ outputs[1] = NoFile
    /\ outputs[2] = Dict(FullRecord)

\* C10: a batch never aborts because of one item: it terminates, every text
\* artifact is processed exactly once and in order, and at the end
\* successful + failed = total_files and errors holds exactly `failed`
\* entries, one for each failed item.
Processed == stats.successful + stats.failed

BatchFinal ==
    /\ cur = Len(txt_files)
    /\ stats.total_files = Len(txt_files)
    /\ Processed = stats.total_files
    /\ Len(stats.errors) = stats.failed
    /\ \A i \in 1..Len(stats.errors) : stats.errors[i][2] \in 1..Len(txt_files)
    /\ \A i, j \in 1..Len(stats.errors) :
          i < j => stats.errors[i][2] < stats.errors[j][2]

C10_BatchNeverAborts ==
    /\ <>(pc = "done")
    /\ [](pc = "done" => BatchFinal)
    /\ [][Processed' # Processed =>
            /\ Processed' = Processed + 1
            /\ Processed' = cur
            /\ pc' = IF cur < Len(txt_files) THEN "read" ELSE "done"]_vars

C10_Witness ==
    /\ pc = "done"
    /\ stats.total_files = 2
    /\ stats.successful = 1
    /\ stats.errors = << <<"Error processing", 1, "TypeError">> >>
    /\ outputs[2] = Dict(FullRecord)

QuotaFailures == Cardinality({i \in 1..Len(calls) : QuotaFailure(i)})

C15_CursorPersistsAcrossItems ==
    [][/\ pc # "call" =>
            /\ current_key_index' = current_key_index
            /\ configured' = configured
       /\ Len(calls) >= 1 =>
            current_key_index = (calls[1].index + QuotaFailures) % K]_vars

C15_Witness ==
    /\ pc = "call"
    /\ cur = 2
    /\ calls = <<>>
    /\ current_key_index = 2
    /\ stats.successful = 1

\* C19 as stated: whenever call_gemini_api returns None, every one of the K
\* credentials was used for at least one attempt.
UsedIndexes == {calls[i].index : i \in 1..Len(calls)}

C19_AsStated ==
    (Returned /\ ai_response = None) =>
        /\ UsedIndexes = 0..(K - 1)
        /\ {calls[i].key : i \in 1..Len(calls)} = {api_keys[i] : i \in 1..K}

\* C19 (amended): whenever call_gemini_api returns None, K attempts were made
\* and the credentials used are the 1 + q consecutive ones from the starting
\* cursor, q being the number of quota failures among the first K - 1
\* attempts; every one of the K credentials was used exactly when the first
\* K - 1 failures were all quota failures.
C19_CredentialsUsedBeforeNone ==
    (Returned /\ ai_response = None) =>
        LET q == Cardinality({i \in 1..(K - 1) : QuotaFailure(i)})
        IN  /\ Len(calls) = K
            /\ UsedIndexes = {(calls[1].index + d) % K : d \in 0..q}
            /\ Cardinality(UsedIndexes) = q + 1
            /\ UsedIndexes = 0..(K - 1) <=> \A i \in 1..(K - 1) : QuotaFailure(i)

C19_Witness ==
    /\ Returned
    /\ ai_response = None
    /\ K = 3
    /\ OtherFailure(1) /\ QuotaFailure(2) /\ OtherFailure(3)
    /\ UsedIndexes = {0, 1}

\* C20: every record persisted as an output artifact is a key-value mapping
\* that contains the four required keys, whatever JSON value the completion
\* parses to.
PersistedNow(f) == outputs[f] \notin {NoFile, StaleFile, PartialFile}

C20_AsStated ==
    \A f \in DOMAIN outputs :
        PersistedNow(f) =>
            /\ outputs[f].t = "dict"
            /\ required_fields \subseteq DOMAIN outputs[f].m

\* C12: with an empty credential list the run never starts, through main or
\* through the constructor: no text file is read, no completion call is made,
\* no output artifact is written and no statistic changes.
C12_EmptyPoolNeverStarts ==
    api_keys = <<>> =>
        /\ pc \in {"start", "aborted", "raised"}
        /\ txt_files = <<>> /\ cur = 0
        /\ calls = <<>> /\ attempt = 0 /\ ai_response = None
        /\ outputs = [f \in {} |-> NoFile]
        /\ stats = [total_files |-> 0, successful |-> 0, failed |-> 0, errors |-> <<>>]

C12_Witness ==
    /\ api_keys = <<>>
    /\ pc = "raised"
    /\ configured = NoKey

\* ============================================ process_resumes (textparser.py)
\* A directory entry is <<base name, extension>> (os.path.splitext).
BaseNames == {"a", "b"}
Extensions == {".pdf", ".txt", ".PNG", ".exe"}
FileNames == BaseNames \X Extensions

supported_extensions ==
    {".pdf", ".docx", ".txt", ".png", ".jpg", ".jpeg", ".tiff", ".bmp"}

\* str.lower on the extensions of the directory entries
ext_lower(ext) == IF ext = ".PNG" THEN ".png" ELSE ext

\* the counting loop: ext.lower() in supported_extensions
counted(ext) == ext_lower(ext) \in supported_extensions

dispatched_case_sensitive(ext) == ext \in supported_extensions

\* the processing loop: ext = ext.lower(); ext not in supported_extensions
\* skips the entry
dispatched(ext) == ext_lower(ext) \in supported_extensions

\* os.listdir: the entries of the input folder, each name once, in any order
Listings ==
    {l \in SeqsUpTo(FileNames, MaxDocs) : \A i, j \in 1..Len(l) : i # j => l[i] # l[j]}

NotWritten == [src |-> <<"", "">>, text |-> "none"]

\* what the strategy chosen for the entry returns: the text of that document,
\* or the empty string (nothing found, or an engine failure swallowed)
Extracted(file) == {[src |-> file, text |-> "text"], [src |-> file, text |-> "empty"]}

\* open(txt_path, "w") raises, or truncates the file and f.write then
\* completes or raises
ResumeWriteResults == {"ok", "open_error", "write_error"}
Truncated(file) == [src |-> file, text |-> "empty"]

RECURSIVE CountSupported(_)
CountSupported(l) ==
    IF l = <<>> THEN 0
    ELSE (IF counted(Head(l)[2]) THEN 1 ELSE 0) + CountSupported(Tail(l))

\* process_resumes is called: the statistics are zero and the output folder
\* holds no text file yet
ResumeInit ==
    /\ ConverterIdle
    /\ pc = "pure"
    /\ arg = <<>>
    /\ ret = <<>>
    /\ all_files = <<>>
    /\ rstats = [total_resumes |-> 0, processed_successfully |-> 0,
                 failed_processing |-> 0, errors |-> <<>>]
    /\ txt_written = [b \in BaseNames |-> NotWritten]
    /\ ok_files = {}
    /\ rpos = 0
    /\ rpc = "start"

\* process_resumes up to the processing loop: list the folder and count the
\* supported files
list_and_count ==
    /\ rpc = "start"
    /\ \E listing \in Listings :
         /\ all_files' = listing
         /\ rstats' = [rstats EXCEPT !.total_resumes = CountSupported(listing)]
         /\ IF listing = <<>> THEN rpos' = 0 /\ rpc' = "done"
                              ELSE rpos' = 1 /\ rpc' = "loop"
    /\ UNCHANGED <<txt_written, ok_files, avars>>

\* one iteration of the processing loop: skip, or dispatch and write
\* <base name>.txt, or record the exception
process_resume ==
    /\ rpc = "loop"
    /\ LET file == all_files[rpos]
       IN  IF ~dispatched(file[2])
           THEN UNCHANGED <<rstats, txt_written, ok_files>>
           ELSE \E text \in Extracted(file), write \in ResumeWriteResults :
                  IF write = "ok"
                  THEN /\ txt_written' = [txt_written EXCEPT ![file[1]] = text]
                       /\ rstats' = [rstats EXCEPT !.processed_successfully = @ + 1]
                       /\ ok_files' = ok_files \cup {file}
                  ELSE /\ rstats' = [rstats EXCEPT
                                       !.failed_processing = @ + 1,
                                       !.errors = Append(@, <<"Failed to process", file>>)]
                       /\ txt_written' =
                            IF write = "open_error" THEN txt_written
                            ELSE [txt_written EXCEPT ![file[1]] = Truncated(file)]
                       /\ UNCHANGED ok_files
    /\ IF rpos < Len(all_files)
       THEN rpos' = rpos + 1 /\ rpc' = "loop"
       ELSE rpos' = rpos /\ rpc' = "done"
    /\ UNCHANGED <<all_files, avars>>

ResumeNext ==
    \/ list_and_count
    \/ process_resume

ResumeSpec == ResumeInit /\ [][ResumeNext]_vars

\* C13 as stated: after process_resumes finishes, the number of distinct text
\* artifacts written equals processed_successfully, and the artifact
\* <base name>.txt of every successfully processed document holds the text
\* extracted from that document.
ArtifactsWritten == {b \in DOMAIN txt_written : txt_written[b] # NotWritten}

C13_AsStated ==
    (rpc = "done" /\ rstats.failed_processing = 0) =>
        /\ Cardinality(ArtifactsWritten) = rstats.processed_successfully
        /\ \A file \in ok_files : txt_written[file[1]].src = file

\* C14: every directory entry has exactly one outcome: an unsupported
\* extension changes nothing; a supported file whose write completes adds one
\* to processed_successfully (also for empty text); a supported file whose
\* write raises adds one to failed_processing and one error naming the file;
\* total_resumes is fixed before the loop, and at the end
\* processed_successfully + failed_processing = total_resumes.
IsSupported(file) ==
    file[2] \in {".pdf", ".docx", ".txt", ".png", ".PNG", ".jpg", ".jpeg", ".tiff", ".bmp"}

C14_OneOutcomePerEntry ==
    /\ [][rpc = "loop" =>
            LET file == all_files[rpos]
            IN  /\ rstats'.total_resumes = rstats.total_resumes
                /\ IF ~IsSupported(file)
                   THEN rstats' = rstats /\ txt_written' = txt_written
                   ELSE \/ /\ rstats' = [rstats EXCEPT !.processed_successfully = @ + 1]
                           /\ txt_written'[file[1]] \in Extracted(file)
                        \/ /\ rstats' = [rstats EXCEPT
                                           !.failed_processing = @ + 1,
                                           !.errors = Append(@, <<"Failed to process", file>>)]
                           /\ \A b \in BaseNames \ {file[1]} :
                                  txt_written'[b] = txt_written[b]]_vars
    /\ [](rpc = "done" =>
            /\ rstats.total_resumes =
                 Cardinality({i \in 1..Len(all_files) : IsSupported(all_files[i])})
            /\ rstats.processed_successfully + rstats.failed_processing
                 = rstats.total_resumes
            /\ Len(rstats.errors) = rstats.failed_processing)

C14_Witness ==
    /\ rpc = "done"
    /\ all_files = << <<"a", ".exe">>, <<"a", ".PNG">>, <<"b", ".pdf">> >>
    /\ rstats.processed_successfully = 1
    /\ txt_written["a"] = [src |-> <<"a", ".PNG">>, text |-> "empty"]
    /\ rstats.errors = << <<"Failed to process", <<"b", ".pdf">> >> >>

\* ================================= the PDF strategy (textparser.py, 14-90)
\* Text is a sequence of segments: Ws is one whitespace character, the other
\* segments are runs of len characters that start and end with a
\* non-whitespace character and come from page `page` of the document.
OcrThreshold == 50

Seg(kind, page, len) == [kind |-> kind, page |-> page, len |-> len]
Ws == Seg("ws", 0, 1)

\* a page: blank, a scan (no text layer, OCR reads it), or a text layer that
\* is short or long
PageKinds == {"blank", "scan", "short", "long"}

\* where the one failing library call of a document is: opening with
\* pdfplumber, extract_text or extract_tables of a page, convert_from_path,
\* image_to_string of a rendered page, fitz.open, or the image of a page
NoFailure == <<"none", 0>>
Failures(n) ==
    {NoFailure, <<"open", 0>>, <<"render", 0>>, <<"fitz_open", 0>>}
        \cup ({"layout", "tables", "ocr", "image"} \X (1..n))

\* a document: its pages, whether page 1 holds a table, whether every page
\* holds an embedded image with text on it, and the failing call
Pdfs ==
    {[pages |-> ps, tables |-> t, images |-> i, fail |-> f] :
        ps \in SeqsUpTo(PageKinds, MaxPages), t \in BOOLEAN, i \in BOOLEAN,
        f \in Failures(MaxPages)} 

RECURSIVE TextLen(_)
TextLen(text) == IF text = <<>> THEN 0 ELSE Head(text).len + TextLen(Tail(text))

RECURSIVE LStripSegs(_)
LStripSegs(text) ==
    IF text # <<>> /\ Head(text).kind = "ws" THEN LStripSegs(Tail(text)) ELSE text

RECURSIVE RStripSegs(_)
RStripSegs(text) ==
    IF text # <<>> /\ text[Len(text)].kind = "ws"
    THEN RStripSegs(SubSeq(text, 1, Len(text) - 1))
    ELSE text

\* len(text.strip())
StrippedLen(text) == TextLen(RStripSegs(LStripSegs(text)))

\* f"\n--- Page {page_num + 1} ---\n"
PageHeader(p) == <<Ws, Seg("header", p, 14), Ws>>

\* page.extract_text() or ""
page_text(pdf, p) ==
    CASE pdf.pages[p] = "short" -> <<Seg("layout", p, 20)>>
      [] pdf.pages[p] = "long" -> <<Seg("layout", p, 60)>>
      [] OTHER -> <<>>

\* "\n[TABLES FOUND]\n", "\nTable 1:\n", df.to_string(index=False) + "\n"
tables_text(pdf, p) ==
    IF pdf.tables /\ p = 1
    THEN <<Ws, Seg("tablemark", p, 14), Ws,
           Ws, Seg("tablehead", p, 8), Ws, Seg("table", p, 10), Ws>>
    ELSE <<>>

\* the pdfplumber loop from page p on; an exception leaves the loop with the
\* text gathered so far
RECURSIVE layout_pages(_, _, _)
layout_pages(pdf, p, text) ==
    IF p > Len(pdf.pages) \/ pdf.fail = <<"layout", p>> THEN text
    ELSE LET withPage == text \o PageHeader(p) \o page_text(pdf, p)
         IN  IF pdf.fail = <<"tables", p>> THEN withPage
             ELSE layout_pages(pdf, p + 1, withPage \o tables_text(pdf, p))

layout_text(pdf) ==
    IF pdf.fail = <<"open", 0>> THEN <<>> ELSE layout_pages(pdf, 1, <<>>)

\* f"\n--- Page {page_num + 1} (OCR) ---\n"
OcrHeader(p) == <<Ws, Seg("ocrheader", p, 20), Ws>>

\* pytesseract.image_to_string of the rendered page
ocr_text(pdf, p) ==
    IF pdf.pages[p] = "blank" THEN <<>> ELSE <<Seg("ocr", p, 30)>>

RECURSIVE ocr_pages(_, _, _)
ocr_pages(pdf, p, text) ==
    IF p > Len(pdf.pages) THEN text
    ELSE IF pdf.fail = <<"ocr", p>> THEN text \o OcrHeader(p)
    ELSE ocr_pages(pdf, p + 1, text \o OcrHeader(p) \o ocr_text(pdf, p))

\* if len(text.strip()) < 50
ocr_branch(text) == StrippedLen(text) < OcrThreshold

\* extract_text_from_pdf_with_ocr
extract_text_from_pdf_with_ocr(pdf) ==
    LET text == layout_text(pdf)
    IN  IF ~ocr_branch(text) THEN text
        ELSE IF pdf.fail = <<"render", 0>> THEN text
        ELSE ocr_pages(pdf, 1, <<>>)

\* the fitz loop from page p on: the page's header, then its image
RECURSIVE image_pages(_, _, _)
image_pages(pdf, p, text) ==
    IF p > Len(pdf.pages) THEN text
    ELSE IF ~pdf.images THEN image_pages(pdf, p + 1, text)
    ELSE LET withHeader == text \o <<Ws, Seg("imgheader", p, 26), Ws>>
         IN  IF pdf.fail = <<"image", p>> THEN withHeader
             ELSE image_pages(pdf, p + 1,
                      withHeader \o <<Ws, Seg("imglabel", p, 13), Ws,
                                      Seg("imgtext", p, 12), Ws>>)

\* extract_images_and_ocr_from_pdf
extract_images_and_ocr_from_pdf(pdf) ==
    IF pdf.fail = <<"fitz_open", 0>> THEN <<>> ELSE image_pages(pdf, 1, <<>>)

\* the ".pdf" branch of process_resumes, with the branch decision of line 41
pdf_strategy(pdf) ==
    LET text == extract_text_from_pdf_with_ocr(pdf)
        image_text == extract_images_and_ocr_from_pdf(pdf)
    IN  [ocr |-> ocr_branch(layout_text(pdf)),
         primary |-> text,
         text |-> IF image_text # <<>> THEN text \o <<Ws>> \o image_text ELSE text]

PdfInit ==
    /\ PureIdle
    /\ pc = "pure"
    /\ arg \in {pdf \in Pdfs : pdf.fail \in Failures(Len(pdf.pages))}
    /\ ret = <<>>

extract_pdf ==
    /\ pc = "pure"
    /\ ret = <<>>
    /\ ret' = <<pdf_strategy(arg)>>
    /\ UNCHANGED <<api_keys, current_key_index, configured, txt_files, stats,
                   outputs, pc, cur, attempt, calls, ai_response, arg, rvars>>

PdfNext == extract_pdf

PdfSpec == PdfInit /\ [][PdfNext]_vars

Extracted_pdf == ret # <<>>
Kinds(text) == {text[i].kind : i \in 1..Len(text)}
HasSeg(text, kind, p) == \E i \in 1..Len(text) : text[i].kind = kind /\ text[i].page = p

\* C16 as stated, in the case it names: a document of any number of pages
\* whose pages all yield no layout text and no tables, and in which no call
\* fails, takes the OCR branch.
C16_AsStated ==
    (/\ Extracted_pdf
     /\ arg.fail = NoFailure
     /\ ~arg.tables
     /\ \A p \in 1..Len(arg.pages) : arg.pages[p] \in {"blank", "scan"})
        => ret[1].ocr

\* C17 as stated: when the OCR branch is taken, the primary text holds no
\* page header, layout text or table text of the layout pass, also when
\* rendering or OCR fails; and the text of embedded images that was read
\* follows the primary text in both branches.
LayoutKinds == {"layout", "tablemark", "tablehead", "table"}

C17_AsStated ==
    Extracted_pdf =>
        /\ ret[1].ocr => Kinds(ret[1].primary) \cap LayoutKinds = {}
        /\ LET image_text == extract_images_and_ocr_from_pdf(arg)
           IN  image_text # <<>> =>
                 ret[1].text = ret[1].primary \o <<Ws>> \o image_text

\* C18 as stated: when the call for page k (layout text, tables or OCR) or
\* for the image of page k fails, every other page that has text for the
\* branch taken, and every other page's image, is still in the result.
C18_AsStated ==
    Extracted_pdf =>
        \A k \in 1..Len(arg.pages), p \in 1..Len(arg.pages) :
            p # k =>
              /\ (/\ arg.fail \in {<<"layout", k>>, <<"tables", k>>, <<"ocr", k>>}
                  /\ ~ret[1].ocr
                  /\ arg.pages[p] \in {"short", "long"})
                     => HasSeg(ret[1].text, "layout", p)
              /\ (/\ arg.fail \in {<<"layout", k>>, <<"tables", k>>, <<"ocr", k>>}
                  /\ ret[1].ocr
                  /\ arg.pages[p] # "blank")
                     => HasSeg(ret[1].text, "ocr", p)
              /\ (arg.fail = <<"image", k>> /\ arg.images)
                     => HasSeg(ret[1].text, "imgtext", p)

====
